---- MODULE Spec2Model ----
(***************************************************************************)
(* The HUD data-collection session of aeye_typer: HUDLearn (construction,  *)
(* start, stop), the _HUDDataCollect key-press callback running in the     *)
(* keyboard listener thread, the gaze sampler filling the gaze buffer, and *)
(* key_to_id.                                                              *)
(*                                                                         *)
(* Threads: the caller of start()/stop() (pc), the listener thread running *)
(* _on_keypress (kp), and the gaze sampler (SampleAppend).  Each statement *)
(* of start(), stop() and _on_keypress that touches shared state is one    *)
(* step, so the threads interleave between statements.                     *)
(*                                                                         *)
(* EyeTrackerGaze (lib/py/eyetracker_gaze) and the HUD panel (lib/py/hud)  *)
(* are not among the sources; they are modelled from the specification     *)
(* (sections 4.2 and 6).  Keyboard.Listener is pynput's: a thread that can *)
(* be started once, is alive from start() until stop() or until a callback *)
(* raises, and delivers no new event after stop().                         *)
(***************************************************************************)
EXTENDS Integers, Sequences, FiniteSets, TLC

VARIABLES
    mode,         \* the mode tag given to HUDLearn(hud_state, mode)
    ctor,         \* outcome of HUDLearn.__init__
    gz_created,   \* an EyeTrackerGaze object exists (self.gazepoint)
    hook_created, \* a Keyboard.Listener object exists (self._keyb_listener)
    logdir,       \* the log directory has been created (datafile_path)
    gz_open,      \* the gaze source is open
    gz_sampling,  \* the gaze source is sampling
    buffer,       \* the gaze source's internal sample buffer
    appended,     \* every sample the sampler ever appended, in order
    log,          \* the rows of the session log file, in file order
    lsn,          \* the listener thread: "none", "new", "alive", "dead"
    pc,           \* position of the thread calling start()/stop()
    ret,          \* outcome of the last start()/stop() call that returned
    warnings,     \* number of warn() calls so far
    stop_done,    \* a stop() that found the session running has returned
    kp,           \* position of the listener thread in _on_keypress
    kp_key,       \* the raw key of the key event being (or last) handled
    kp_id,        \* key_id computed for it
    kp_centr,     \* centroid resolved for it
    kp_err        \* the exception that ended the listener thread, if any

vars == <<mode, ctor, gz_created, hook_created, logdir, gz_open, gz_sampling,
          buffer, appended, log, lsn, pc, ret, warnings, stop_done, kp,
          kp_key, kp_id, kp_centr, kp_err>>

ctorVars == <<mode, ctor, gz_created, hook_created, logdir>>
gazeVars == <<gz_open, gz_sampling, buffer, appended, log>>
kpVars   == <<kp, kp_key, kp_id, kp_centr, kp_err>>

(***************************************************************************)
(* Bounds of the model.                                                    *)
(***************************************************************************)
MaxSamples == 3     \* samples the sampler produces in one behaviour
MaxWarn    == 2     \* redundant start()/stop() calls in one behaviour

None == "None"      \* Python's None (no handler, no mode yet)

(***************************************************************************)
(* key_to_id (app.py).  A raw key is a record of the attributes the        *)
(* function reads: whether it has a char attribute, whether that is None,  *)
(* its code point; whether it has a value with a vk; whether it has a vk.  *)
(***************************************************************************)
RawKey(name, has_char, char_none, char, has_value, value_vk, has_vk, vk) ==
    [name |-> name, has_char |-> has_char, char_none |-> char_none,
     char |-> char, has_value |-> has_value, value_vk |-> value_vk,
     has_vk |-> has_vk, vk |-> vk]

Keys ==
    { RawKey("a",     TRUE,  FALSE, 97,  FALSE, 0,     TRUE,  38),
      RawKey("A",     TRUE,  FALSE, 65,  FALSE, 0,     TRUE,  38),
      RawKey("shift", FALSE, FALSE, 0,   TRUE,  65505, FALSE, 0),
      RawKey("kp5",   TRUE,  TRUE,  0,   FALSE, 0,     TRUE,  65437),
      RawKey("Idot",  TRUE,  FALSE, 304, FALSE, 0,     TRUE,  105),
      RawKey("bad",   FALSE, FALSE, 0,   FALSE, 0,     FALSE, 0) }

NoKey == RawKey("-", FALSE, FALSE, 0, FALSE, 0, FALSE, 0)

\* a returned value, or the exception raised instead
Val(v)    == [err |-> "none", val |-> v]
Raise(e)  == [err |-> e, val |-> 0]

\* str.lower() as a sequence of code points: 'A'..'Z' map to 'a'..'z', and
\* U+0130 lowers to the two code points U+0069 U+0307.
Lower(c) ==
    IF c \in 65..90 THEN <<c + 32>>
    ELSE IF c = 304 THEN <<105, 775>>
    ELSE <<c>>

\* ord(s): the code point of a one-character string, TypeError otherwise.
Ord(s) == IF Len(s) = 1 THEN Val(s[1]) ELSE Raise("TypeError")

\* key.char.lower() raises AttributeError when key has no char or char is
\* None; key.value.vk when key has no value; key.vk when key has no vk.
KeyToId(key) ==
    IF key.has_char /\ ~key.char_none
    THEN Ord(Lower(key.char))
    ELSE IF key.has_value
         THEN Val(key.value_vk)
         ELSE IF key.has_vk
              THEN Val(key.vk)
              ELSE Raise("AttributeError")

(***************************************************************************)
(* The active panel's buttons (spec section 6, ButtonResolver): payload -> *)
(* centroid.  A payload with no button is a lookup miss.                   *)
(***************************************************************************)
Panel == [p \in {97, 65505} |-> IF p = 97 THEN <<150, 250>> ELSE <<10, 20>>]

NoCentroid == <<0, 0>>

\* active_panel.btn_frompayload(key_id).centroid
Centroid(key_id) ==
    IF key_id \in DOMAIN Panel
    THEN [err |-> "none", val |-> Panel[key_id]]
    ELSE [err |-> "LookupError", val |-> NoCentroid]

\* Label with the centroid's coordinates in the wrong order
LabelYX(centr, key_id) ==
    ToString(centr[2]) \o ", " \o ToString(centr[1]) \o ", " \o ToString(key_id)

\* label=f'{centr[0]}, {centr[1]}, {key_id}'
Label(centr, key_id) ==
    ToString(centr[1]) \o ", " \o ToString(centr[2]) \o ", " \o ToString(key_id)

(***************************************************************************)
(* EyeTrackerGaze, from spec section 4.2.                                  *)
(***************************************************************************)
GazePoints == {<<100, 200>>, <<101, 201>>, <<99, 199>>}

\* one row of the log: the drained sample and the label passed to to_csv
Row(s, label) == [s |-> s, label |-> label]

\* to_csv that loses the newest buffered sample
ToCsvRowsLossy(buf, label) ==
    [i \in 1..(Len(buf) - 1) |-> Row(buf[i], label)]

\* to_csv that writes the newest buffered sample first
ToCsvRowsReversed(buf, label) ==
    [i \in 1..Len(buf) |-> Row(buf[Len(buf) + 1 - i], label)]

\* to_csv(path, label): every buffered sample, in buffer order, as one row
ToCsvRows(buf, label) == [i \in 1..Len(buf) |-> Row(buf[i], label)]

\* the text of a row in the file: gaze_x,gaze_y,<label>
RowText(r) == ToString(r.s.x) \o "," \o ToString(r.s.y) \o "," \o r.label

FileText == [i \in 1..Len(log) |-> RowText(log[i])]

(***************************************************************************)
(* HUDLearn.__init__                                                       *)
(***************************************************************************)
Modes == {"collect", "train", "infer", "bogus"}

\* the dispatch table of __init__: .get(mode, None)
Handler(m) ==
    CASE m = "collect" -> "_HUDDataCollect"
      [] m = "train"   -> "_HUDTrain"
      [] m = "infer"   -> "_HUDInfer"
      [] OTHER         -> None

\* handler(self) with a _HUDInfer whose __init__ does not raise
HandlerInitInferSilent(h) ==
    IF h = "_HUDTrain" THEN "NotImplementedError" ELSE "ok"

\* handler(self): _HUDTrain and _HUDInfer raise from their __init__
HandlerInit(h) ==
    IF h \in {"_HUDTrain", "_HUDInfer"} THEN "NotImplementedError" ELSE "ok"

Init ==
    /\ mode = None
    /\ ctor = "pending"
    /\ gz_created = FALSE
    /\ hook_created = FALSE
    /\ logdir = FALSE
    /\ gz_open = FALSE
    /\ gz_sampling = FALSE
    /\ buffer = <<>>
    /\ appended = <<>>
    /\ log = <<>>
    /\ lsn = "none"
    /\ pc = "idle"
    /\ ret = "none"
    /\ warnings = 0
    /\ stop_done = FALSE
    /\ kp = "idle"
    /\ kp_key = NoKey
    /\ kp_id = 0
    /\ kp_centr = NoCentroid
    /\ kp_err = "none"

\* HUDLearn(hud_state, m): the gaze object is created first, then the mode
\* is looked up, then the handler is constructed.
Construct(m) ==
    /\ ctor = "pending"
    /\ mode' = m
    /\ gz_created' = TRUE
    /\ IF Handler(m) = None
       THEN /\ ctor' = "ValueError"
            /\ UNCHANGED <<hook_created, logdir, lsn>>
       ELSE IF HandlerInit(Handler(m)) # "ok"
            THEN /\ ctor' = HandlerInit(Handler(m))
                 /\ UNCHANGED <<hook_created, logdir, lsn>>
            ELSE /\ ctor' = "ok"
                 /\ hook_created' = TRUE
                 /\ lsn' = "new"
                 /\ logdir' = TRUE
    /\ UNCHANGED <<gazeVars, pc, ret, warnings, stop_done, kpVars>>

\* self._handler.async_proc.is_alive()
IsAlive == lsn = "alive"

(***************************************************************************)
(* HUDLearn.start                                                          *)
(***************************************************************************)
\* start() without the is_alive() check
StartCallUnguarded ==
    /\ ctor = "ok"
    /\ pc = "idle"
    /\ pc' = "start_open"
    /\ UNCHANGED <<ctorVars, gazeVars, lsn, ret, warnings, stop_done, kpVars>>

StartCall ==
    /\ ctor = "ok"
    /\ pc = "idle"
    /\ IF IsAlive
       THEN /\ warnings < MaxWarn
            /\ warnings' = warnings + 1
            /\ ret' = "start_warned"
            /\ pc' = "idle"
       ELSE /\ pc' = "start_open"
            /\ UNCHANGED <<warnings, ret>>
    /\ UNCHANGED <<ctorVars, gazeVars, lsn, stop_done, kpVars>>

\* start() that leaves out gazepoint.open()
StartGazeOpenSkipped ==
    /\ pc = "start_open"
    /\ pc' = "start_gstart"
    /\ UNCHANGED <<ctorVars, gazeVars, lsn, ret, warnings, stop_done, kpVars>>

StartGazeOpen ==
    /\ pc = "start_open"
    /\ gz_open' = TRUE
    /\ pc' = "start_gstart"
    /\ UNCHANGED <<ctorVars, gz_sampling, buffer, appended, log, lsn, ret,
                   warnings, stop_done, kpVars>>

StartGazeStart ==
    /\ pc = "start_gstart"
    /\ gz_sampling' = TRUE
    /\ pc' = "start_listener"
    /\ UNCHANGED <<ctorVars, gz_open, buffer, appended, log, lsn, ret,
                   warnings, stop_done, kpVars>>

\* async_proc.start(): a thread starts once; a second start() raises
\* RuntimeError, which leaves start() before it returns.
StartListener ==
    /\ pc = "start_listener"
    /\ IF lsn = "new"
       THEN /\ lsn' = "alive"
            /\ ret' = "started"
       ELSE /\ ret' = "RuntimeError"
            /\ UNCHANGED lsn
    /\ pc' = "idle"
    /\ UNCHANGED <<ctorVars, gazeVars, warnings, stop_done, kpVars>>

(***************************************************************************)
(* HUDLearn.stop                                                           *)
(***************************************************************************)
\* stop() without the is_alive() check
StopCallUnguarded ==
    /\ ctor = "ok"
    /\ pc = "idle"
    /\ pc' = "stop_gstop"
    /\ UNCHANGED <<ctorVars, gazeVars, lsn, ret, warnings, stop_done, kpVars>>

StopCall ==
    /\ ctor = "ok"
    /\ pc = "idle"
    /\ IF ~IsAlive
       THEN /\ warnings < MaxWarn
            /\ warnings' = warnings + 1
            /\ ret' = "stop_warned"
            /\ pc' = "idle"
       ELSE /\ pc' = "stop_gstop"
            /\ UNCHANGED <<warnings, ret>>
    /\ UNCHANGED <<ctorVars, gazeVars, lsn, stop_done, kpVars>>

StopGazeStop ==
    /\ pc = "stop_gstop"
    /\ gz_sampling' = FALSE
    /\ pc' = "stop_gclose"
    /\ UNCHANGED <<ctorVars, gz_open, buffer, appended, log, lsn, ret,
                   warnings, stop_done, kpVars>>

\* stop() that leaves out gazepoint.close()
StopGazeCloseSkipped ==
    /\ pc = "stop_gclose"
    /\ pc' = "stop_listener"
    /\ UNCHANGED <<ctorVars, gazeVars, lsn, ret, warnings, stop_done, kpVars>>

StopGazeClose ==
    /\ pc = "stop_gclose"
    /\ gz_open' = FALSE
    /\ pc' = "stop_listener"
    /\ UNCHANGED <<ctorVars, gz_sampling, buffer, appended, log, lsn, ret,
                   warnings, stop_done, kpVars>>

\* async_proc.stop(): no further event is delivered; a callback that is
\* already running runs to its end.
StopListener ==
    /\ pc = "stop_listener"
    /\ lsn' = "dead"
    /\ ret' = "stopped"
    /\ stop_done' = TRUE
    /\ pc' = "idle"
    /\ UNCHANGED <<ctorVars, gazeVars, warnings, kpVars>>

(***************************************************************************)
(* The gaze sampler: appends one timestamped sample while sampling.  An   *)
(* append and a running to_csv exclude each other (spec section 4.2).      *)
(***************************************************************************)
SampleAppend(p) ==
    /\ gz_sampling
    /\ kp # "flushing"
    /\ Len(appended) < MaxSamples
    /\ LET s == [x |-> p[1], y |-> p[2], t |-> Len(appended) + 1]
       IN /\ buffer' = Append(buffer, s)
          /\ appended' = Append(appended, s)
    /\ UNCHANGED <<ctorVars, gz_open, gz_sampling, log, lsn, pc, ret,
                   warnings, stop_done, kpVars>>

(***************************************************************************)
(* _HUDDataCollect._on_keypress, in the listener thread.                   *)
(***************************************************************************)
\* a callback that notes a lookup miss and returns, the listener going on
KeyPressSkipOnMiss(key) ==
    /\ lsn = "alive"
    /\ kp = "idle"
    /\ kp_key' = key
    /\ LET id == KeyToId(key)
           c  == Centroid(id.val)
       IN IF id.err # "none"
          THEN /\ kp_err' = id.err
               /\ lsn' = "dead"
               /\ UNCHANGED <<kp, kp_id, kp_centr>>
          ELSE IF c.err # "none"
          THEN /\ kp_err' = c.err
               /\ kp_id' = id.val
               /\ UNCHANGED <<kp, kp_centr, lsn>>
          ELSE /\ kp_id' = id.val
               /\ kp_centr' = c.val
               /\ kp' = "resolved"
               /\ UNCHANGED <<kp_err, lsn>>
    /\ UNCHANGED <<ctorVars, gazeVars, pc, ret, warnings, stop_done>>

\* lines 110-112: key_id and centroid.  An exception leaves the callback
\* and ends the listener thread.
KeyPress(key) ==
    /\ lsn = "alive"
    /\ kp = "idle"
    /\ kp_key' = key
    /\ LET id == KeyToId(key)
           c  == Centroid(id.val)
       IN IF id.err # "none"
          THEN /\ kp_err' = id.err
               /\ lsn' = "dead"
               /\ UNCHANGED <<kp, kp_id, kp_centr>>
          ELSE IF c.err # "none"
          THEN /\ kp_err' = c.err
               /\ lsn' = "dead"
               /\ kp_id' = id.val
               /\ UNCHANGED <<kp, kp_centr>>
          ELSE /\ kp_id' = id.val
               /\ kp_centr' = c.val
               /\ kp' = "resolved"
               /\ UNCHANGED <<kp_err, lsn>>
    /\ UNCHANGED <<ctorVars, gazeVars, pc, ret, warnings, stop_done>>

\* lines 115-116: the callback enters gazepoint.to_csv(...).  Nothing in
\* stop() waits for it, so gazepoint.stop() and close() can run before
\* to_csv returns.
KeyFlushBegin ==
    /\ kp = "resolved"
    /\ kp' = "flushing"
    /\ UNCHANGED <<ctorVars, gazeVars, lsn, pc, ret, warnings, stop_done,
                   kp_key, kp_id, kp_centr, kp_err>>

\* the callback calling to_csv(self._logpath) without its label
KeyFlushNoLabel ==
    /\ kp = "flushing"
    /\ log' = log \o ToCsvRows(buffer, "")
    /\ buffer' = <<>>
    /\ kp' = "idle"
    /\ kp_key' = NoKey
    /\ kp_id' = 0
    /\ kp_centr' = NoCentroid
    /\ UNCHANGED <<ctorVars, gz_open, gz_sampling, appended, lsn, pc, ret,
                   warnings, stop_done, kp_err>>

\* lines 115-116: gazepoint.to_csv(self._logpath, label=...) returns, the
\* buffered samples written and the buffer cleared
KeyFlush ==
    /\ kp = "flushing"
    /\ log' = log \o ToCsvRows(buffer, Label(kp_centr, kp_id))
    /\ buffer' = <<>>
    /\ kp' = "idle"
    /\ kp_key' = NoKey
    /\ kp_id' = 0
    /\ kp_centr' = NoCentroid
    /\ UNCHANGED <<ctorVars, gz_open, gz_sampling, appended, lsn, pc, ret,
                   warnings, stop_done, kp_err>>

Next ==
    \/ \E m \in Modes : Construct(m)
    \/ StartCall
    \/ StartGazeOpen
    \/ StartGazeStart
    \/ StartListener
    \/ StopCall
    \/ StopGazeStop
    \/ StopGazeClose
    \/ StopListener
    \/ \E p \in GazePoints : SampleAppend(p)
    \/ \E key \in Keys : KeyPress(key)
    \/ KeyFlushBegin
    \/ KeyFlush

Spec == Init /\ [][Next]_vars

(***************************************************************************)
(* Properties.                                                             *)
(***************************************************************************)
\* a step in which the callback's to_csv call writes and returns
FlushStep == kp = "flushing" /\ kp' = "idle"

\* the samples of the log's rows, in file order
LogSamples == [i \in 1..Len(log) |-> log[i].s]

\* C1: outside start() and stop(), the gaze source is open and sampling
\* exactly when the listener is alive, and once a stop() has returned the
\* gaze source is stopped and closed and the listener is not alive.
C1_NoPartialState ==
    (ctor = "ok" /\ pc = "idle") =>
        /\ gz_open <=> IsAlive
        /\ gz_sampling <=> IsAlive
        /\ ret \in {"stopped", "stop_warned"} =>
               ~gz_open /\ ~gz_sampling /\ ~IsAlive

\* C2: a start() call made while the listener is alive returns at once with
\* one more warning, and changes neither the gaze source nor the listener.
C2_RedundantStartNoOp ==
    [][(IsAlive /\ StartCall) =>
          /\ warnings' = warnings + 1
          /\ pc' = "idle"
          /\ ret' = "start_warned"
          /\ UNCHANGED <<gz_open, gz_sampling, buffer, appended, log, lsn,
                         hook_created, gz_created>>]_vars

C2_Witness ==
    /\ ret = "start_warned"
    /\ warnings >= 2
    /\ IsAlive /\ gz_open /\ gz_sampling

\* C3: a stop() call made while the listener is not alive returns at once
\* with one more warning; it stops and closes nothing and the listener (the
\* handle it returns) is as it was.
C3_RedundantStopNoOp ==
    [][(~IsAlive /\ StopCall) =>
          /\ warnings' = warnings + 1
          /\ pc' = "idle"
          /\ ret' = "stop_warned"
          /\ UNCHANGED <<gz_open, gz_sampling, buffer, appended, log, lsn,
                         hook_created, gz_created>>]_vars

C3_Witness ==
    /\ ret = "stop_warned"
    /\ warnings >= 2
    /\ stop_done
    /\ kp_err = "none"

\* C4: the flush of a key event writes one row for each sample appended
\* since the previous flush, in the order appended, each with the label of
\* this event's centroid and key id, and leaves the buffer empty.
C4_FlushWritesSamplesSincePrevious ==
    [][FlushStep =>
          LET since == SubSeq(appended, Len(log) + 1, Len(appended))
              id    == KeyToId(kp_key).val
          IN /\ kp_id = id
             /\ kp_centr = Panel[id]
             /\ Len(log') = Len(log) + Len(since)
             /\ SubSeq(log', 1, Len(log)) = log
             /\ \A i \in 1..Len(since) :
                    log'[Len(log) + i] = Row(since[i], Label(Panel[id], id))
             /\ buffer' = <<>>]_vars

\* two consecutive key events, each with its own label, flushed everything
C4_Witness ==
    /\ Len(log) = 3
    /\ log[1].label # log[2].label
    /\ log[2].label = log[3].label
    /\ buffer = <<>>
    /\ kp = "idle"

C6_NoRowsAfterStop == [][stop_done => log' = log]_vars

\* C7: when construction fails with the invalid-mode error, no device
\* object, keyboard hook or log directory has been created.
C7_InvalidModeAcquiresNothing ==
    ctor = "ValueError" =>
        ~gz_created /\ ~gz_open /\ ~hook_created /\ ~logdir

\* C8: construction with mode train or infer ends with NotImplementedError,
\* and the session never opens or starts the gaze source and never has a
\* listener.
C8_TrainInferNeverRun ==
    (ctor # "pending" /\ mode \in {"train", "infer"}) =>
        /\ ctor = "NotImplementedError"
        /\ ~gz_open /\ ~gz_sampling
        /\ lsn = "none" /\ ~hook_created
        /\ pc = "idle" /\ ret = "none"
        /\ appended = <<>> /\ log = <<>>

C8_Witness == ctor = "NotImplementedError" /\ mode = "infer"

\* the text of a row with fields a,b,c,d,e joined by sep1 (after the gaze
\* fields) and sep2 (inside the label)
FiveFields(s, centr, id, sep) ==
    ToString(s.x) \o "," \o ToString(s.y) \o "," \o ToString(centr[1])
        \o sep \o ToString(centr[2]) \o sep \o ToString(id)

\* C9 as stated: every row a flush writes is gaze_x,gaze_y,btn_x,btn_y,key_id
\* with commas alone between the fields.
C9_RowsCommaOnly ==
    [][FlushStep =>
          \A i \in 1..Len(buffer) :
              RowText(log'[Len(log) + i])
                  = FiveFields(buffer[i], kp_centr, kp_id, ",")]_vars

\* C9 amended: the label is "{centroid.x}, {centroid.y}, {key_id}", a comma
\* and one space between its parts, so every row a flush writes is
\* gaze_x,gaze_y,btn_x, btn_y, key_id.
C9_RowsCommaSpaceInLabel ==
    [][FlushStep =>
          /\ Len(log') = Len(log) + Len(buffer)
          /\ \A i \in 1..Len(buffer) :
                 RowText(log'[Len(log) + i])
                     = FiveFields(buffer[i], Panel[KeyToId(kp_key).val],
                                  KeyToId(kp_key).val, ", ")]_vars

\* samples (100,200), (101,201), (99,199), then a key with id 97 and
\* centroid (150,250)
C9_Witness ==
    FileText = << "100,200,150, 250, 97",
                  "101,201,150, 250, 97",
                  "99,199,150, 250, 97" >>

\* the code of the lower-cased character
LowerCode(c) == IF c \in 65..90 THEN c + 32 ELSE c

\* C10: for the key the callback was given, key_to_id returned the code of
\* the lower-cased character if the key has a character, else the vk of its
\* value if it has one, else its own vk, and raised only when the key has
\* none of these.
C10_KeyToIdFirstMatch ==
    kp_key # NoKey =>
        IF kp_key.has_char /\ ~kp_key.char_none
        THEN /\ kp_err \notin {"TypeError", "AttributeError"}
             /\ kp_id = LowerCode(kp_key.char)
        ELSE IF kp_key.has_value
        THEN /\ kp_err \notin {"TypeError", "AttributeError"}
             /\ kp_id = kp_key.value_vk
        ELSE IF kp_key.has_vk
        THEN /\ kp_err \notin {"TypeError", "AttributeError"}
             /\ kp_id = kp_key.vk
        ELSE kp_err = "AttributeError"

\* C11: a start() call that found the session stopped (the listener not
\* alive, no callback having failed) ends with the gaze source open and
\* sampling and the listener alive, on a fresh session and on one that was
\* started and stopped before.
C11_StartFromStoppedRuns ==
    [][(pc = "start_listener" /\ pc' = "idle" /\ kp_err = "none") =>
          /\ gz_open' /\ gz_sampling'
          /\ lsn' = "alive"
          /\ ret' = "started"]_vars

\* C12: while a to_csv call of the callback is running, the gaze source is
\* neither stopped nor closed.
C12_NoStopDuringFlush ==
    [][kp = "flushing" =>
          /\ gz_sampling => gz_sampling'
          /\ gz_open => gz_open']_vars

\* a step in which the button lookup of a key event fails
LookupFails == kp_err = "none" /\ kp_err' = "LookupError"

\* C13: a failed button lookup skips that key event's flush and leaves the
\* listener alive, so that later key presses are still handled.
C13_LookupFailureRecoverable ==
    [][LookupFails => /\ log' = log
                      /\ kp' = "idle"
                      /\ lsn' = "alive"]_vars

\* C14: a failed button lookup leaves the callback before to_csv is called:
\* the step writes no row and leaves the buffer as it is, the listener ends
\* with it, and from then on the listener is not alive and the log gets no
\* row.
C14_LookupFailureEndsListener ==
    /\ [][LookupFails => /\ log' = log
                         /\ buffer' = buffer
                         /\ kp = "idle" /\ kp' = "idle"
                         /\ lsn' = "dead"]_vars
    /\ [](kp_err = "LookupError" => ~IsAlive /\ kp = "idle")
    /\ [][kp_err = "LookupError" => log' = log]_vars

\* a lookup failure after an earlier flush, with samples left undrained
C14_Witness ==
    /\ kp_err = "LookupError"
    /\ Len(log) >= 1
    /\ Len(buffer) >= 1
    /\ lsn = "dead"

\* C15: start() opens the gaze source, starts it with the source open, and
\* starts the listener with the source open and sampling; a callback begins
\* only in a listener so started, and it is given a key only then.
C15_StartOrder ==
    /\ [][(~gz_open /\ gz_open') => pc = "start_open"]_vars
    /\ [][(~gz_sampling /\ gz_sampling') =>
             pc = "start_gstart" /\ gz_open]_vars
    /\ [][(lsn # "alive" /\ lsn' = "alive") =>
             pc = "start_listener" /\ gz_open /\ gz_sampling]_vars
    /\ [][(kp = "idle" /\ kp_key' # kp_key) => lsn = "alive"]_vars
    /\ [](kp # "idle" => lsn \in {"alive", "dead"})

C15_Witness ==
    /\ kp = "resolved"
    /\ ret = "started"
    /\ pc = "idle"
    /\ gz_open /\ gz_sampling

\* C16: stop() on a running session halts sampling first, closes the gaze
\* source next, with sampling halted, and stops the listener last, with the
\* source closed; the call returns with that step.
C16_StopOrder ==
    /\ [][(gz_sampling /\ ~gz_sampling') => pc = "stop_gstop"]_vars
    /\ [][(gz_open /\ ~gz_open') =>
             pc = "stop_gclose" /\ ~gz_sampling]_vars
    /\ [][(lsn = "alive" /\ lsn' = "dead" /\ kp_err' = kp_err) =>
             /\ pc = "stop_listener" /\ pc' = "idle"
             /\ ~gz_open /\ ~gz_sampling]_vars
    /\ [][(~stop_done /\ stop_done') =>
             /\ pc = "stop_listener" /\ pc' = "idle"
             /\ ~gz_open' /\ ~gz_sampling' /\ lsn' = "dead"]_vars

C16_Witness ==
    /\ ret = "stopped"
    /\ stop_done
    /\ Len(log) >= 1
    /\ ~gz_open /\ ~gz_sampling /\ lsn = "dead"

C18_TailDiscarded ==
    [][/\ (pc \in {"stop_gstop", "stop_gclose", "stop_listener"}
              /\ pc' # pc) => (log' = log /\ buffer' = buffer)
       /\ (pc \in {"stop_gclose", "stop_listener"} \/ stop_done) =>
              log' = log]_vars

\* C19: the callback enters to_csv only while the gaze source is open.
C19_FlushOnlyWhileOpen ==
    [][(kp = "resolved" /\ kp' = "flushing") => gz_open]_vars

====
